---- MODULE Spec2Model ----
(***************************************************************************)
(* Model of the two job-orchestration primitives of gpm:                   *)
(*   - pipeline() and PackageManager.release()  (core/managers/package.ts) *)
(*   - DevTools.watch()                         (core/managers/devtools.ts)*)
(* SpecPipeline drives the first, SpecWatch the second.                    *)
(***************************************************************************)
EXTENDS Integers, Sequences, FiniteSets, TLC

\* ------------------------------------------------------------------ bounds
MaxCmds == 2        \* longest configured command list
MaxNotes == 1       \* data / error notifications one pipeline child may fire
MaxChanges == 2     \* filesystem change events in one watch session

\* ------------------------------------------------------- input alphabets
CmdNames == {"a", "b"}
Errors == {"E1", "E2"}
Chunks == {"out"}

SeqsUpTo(S, n) == UNION {[1..k -> S] : k \in 0..n}

VARIABLES
  \* ---- PackageManager.release / pipeline
  cfgRelease,   \* this.config.get('release'): [set, isList, cmds]
  relPc,        \* "idle" | "piping" | "nodejs"
  commands,     \* the list handed to pipeline()
  ppc,          \* position of pipeline/run: "none" | "awaitExit" | "rejected" | "done"
  idx,          \* index of the command the for-loop is at
  spawnLog,     \* commands api.$.spawn was called with, in call order
  live,         \* indices of spawned children that have not emitted exit
  thrown,       \* the error a spawn call raised, "none" if none
  notes,        \* notifications fired by the current child
  childErrors,  \* values the children's `error` notification carried
  events,       \* every emitter.emit of the pipeline: [ev, payload, delivered]
  listeners,    \* event names release() has registered with pl.on
  stderrLog,    \* values written by process.stderr.write
  stdoutLog,    \* values written by process.stdout.write
  promise,      \* the promise release() returns: "none" | "pending" | "resolved"
  \* ---- DevTools.watch
  optGiven,     \* whether watch() was passed an options argument
  optCommand,   \* options.command: [kind, cmds], kind "none" | "string" | "list"
  cfgWatch,     \* the `watch` entry of the config store: [kind, cmds]
  isReady,      \* DevToolsConfig.isReady
  wpc,          \* "idle" | "watching" | "failed"
  watchError,   \* message of the error watch() threw, "none" if none
  watcherRegistered, \* api.fs.watch has been called
  command,      \* the resolved command: [kind, cmds]
  timer,        \* the debounce timer: [set, left, first]
  child,        \* the closure variable of createRun: [set, isList, handles]
  procs,        \* every process spawned: [cycle, cmd, state]
  handlers,     \* invocations of the debounced handler, one per watch cycle
  changes,      \* filesystem change events delivered so far
  sinceCall,    \* ms since the last call of _run (saturates at DebounceMs)
  sinceStart,   \* ms since watch() called _run(true) (saturates at DebounceMs)
  bursts,       \* bursts of _run calls begun so far
  burstLen      \* calls of _run in the current burst

pvars == <<cfgRelease, relPc, commands, ppc, idx, spawnLog, live, thrown,
           notes, childErrors, events, listeners, stderrLog, stdoutLog, promise>>

wvars == <<optGiven, optCommand, cfgWatch, isReady, wpc, watchError,
           watcherRegistered, command, timer, child, procs, handlers, changes,
           sinceCall, sinceStart, bursts, burstLen>>

vars == <<pvars, wvars>>

\* ---------------------------------------------------------------- config
\* a release entry is absent, one string, or a list of strings
ReleaseConfigs ==
  {[set |-> FALSE, isList |-> FALSE, cmds |-> <<>>]}
  \cup {[set |-> TRUE, isList |-> FALSE, cmds |-> <<c>>] : c \in CmdNames}
  \cup {[set |-> TRUE, isList |-> TRUE, cmds |-> cs] : cs \in SeqsUpTo(CmdNames, MaxCmds)}

\* package.ts:22-24  Array.isArray(releaseCommand) ? releaseCommand : [releaseCommand]
ReleaseCommands(rc) == rc.cmds

\* ---------------------------------------------------------------- emitter
Event(ev, payload, ls) == [ev |-> ev, payload |-> payload, delivered |-> ev \in ls]

\* package.ts:27  pl.on('error', e => process.stderr.write(e))
OnError(ls, log, payload) == IF "error" \in ls THEN Append(log, payload) ELSE log

\* package.ts:28  pl.on('data', e => process.stdout.write(e))
OnData(ls, log, payload) == IF "data" \in ls THEN Append(log, payload) ELSE log

\* package.ts:29-31  pl.on('exit', () => resolve())
OnExit(ls, p) == IF "exit" \in ls THEN "resolved" ELSE p

\* package.ts:27  what the `error` observer does to the promise: nothing
OnErrorPromise(ls, p) == p

\* the child's error forwarded under the pipeline's own `error` event
ChildErrorForwardedAsError == "error"

\* package.ts:275  child.on('error', e => emitter.emit('data', e))
ChildErrorForwardedAs == "data"

\* a loop that skips the command after the one that exited
NextIndexSkip(i) == i + 2

\* package.ts:272, 277-279  the child's exit resolves the awaited promise: the loop advances
NextIndex(i) == i + 1

\* emitter.emit(ev, payload): synchronous delivery to the listeners registered now
Emit(ev, payload, ls) ==
  /\ events' = Append(events, Event(ev, payload, ls))
  /\ stderrLog' = IF ev = "error" THEN OnError(ls, stderrLog, payload) ELSE stderrLog
  /\ stdoutLog' = IF ev = "data" THEN OnData(ls, stdoutLog, payload) ELSE stdoutLog

NoEmit == UNCHANGED <<events, stderrLog, stdoutLog>>

\* a spawn whose throw is swallowed: the loop waits for an exit all the same
AfterSpawnSwallow(outcome) == "awaitExit"

\* package.ts:271-274,284  a throw inside the promise executor rejects the
\* awaited promise, which leaves the loop for the catch clause
AfterSpawn(outcome) == IF outcome = "ok" THEN "awaitExit" ELSE "rejected"

\* One turn of the for-loop of pipeline/run at index i (package.ts:272-283):
\* past the end it emits `exit`; otherwise it calls api.$.spawn, which either
\* throws (outcome is the error) or yields a child to wait for.
\* ls: listeners registered now, p: the promise now, lv: children still un-exited
LoopAt(cs, i, outcome, ls, p, lv) ==
  /\ idx' = i
  /\ notes' = 0
  /\ IF i > Len(cs)
     THEN /\ Emit("exit", "none", ls)
          /\ promise' = OnExit(ls, p)
          /\ ppc' = "done"
          /\ live' = lv
          /\ UNCHANGED <<spawnLog, thrown>>
     ELSE /\ NoEmit
          /\ promise' = p
          /\ spawnLog' = Append(spawnLog, cs[i])
          /\ ppc' = AfterSpawn(outcome)
          /\ live' = IF outcome = "ok" THEN lv \cup {i} ELSE lv
          /\ thrown' = IF outcome = "ok" THEN thrown ELSE outcome

SpawnOutcomes == {"ok"} \cup Errors

\* package.ts:19-33 (with pipeline(), 267-292, run synchronously up to its first await)
Release ==
  /\ relPc = "idle"
  /\ IF cfgRelease.set
     THEN /\ relPc' = "piping"
          /\ commands' = ReleaseCommands(cfgRelease)
          /\ \E o \in SpawnOutcomes :
               LoopAt(ReleaseCommands(cfgRelease), 1, o, {}, "pending", {})
          /\ listeners' = {"error", "data", "exit"}
          /\ UNCHANGED <<cfgRelease, childErrors>>
     ELSE /\ relPc' = "nodejs"
          /\ UNCHANGED <<cfgRelease, commands, ppc, idx, spawnLog, live, thrown,
                         notes, childErrors, events, listeners, stderrLog,
                         stdoutLog, promise>>
  /\ UNCHANGED wvars

\* package.ts:276  child.on('data', e => emitter.emit('data', e))
ChildData ==
  /\ ppc = "awaitExit"
  /\ notes < MaxNotes
  /\ \E d \in Chunks : Emit("data", d, listeners)
  /\ notes' = notes + 1
  /\ UNCHANGED <<cfgRelease, relPc, commands, ppc, idx, spawnLog, live, thrown,
                 childErrors, listeners, promise>>
  /\ UNCHANGED wvars

\* package.ts:275  the child's `error` notification
ChildError ==
  /\ ppc = "awaitExit"
  /\ notes < MaxNotes
  /\ \E e \in Errors :
       /\ Emit(ChildErrorForwardedAs, e, listeners)
       /\ childErrors' = Append(childErrors, [child |-> idx, value |-> e])
  /\ notes' = notes + 1
  /\ UNCHANGED <<cfgRelease, relPc, commands, ppc, idx, spawnLog, live, thrown,
                 listeners, promise>>
  /\ UNCHANGED wvars

\* package.ts:277-281  the child's exit resolves the awaited promise and the loop goes on
ChildExit ==
  /\ ppc = "awaitExit"
  /\ \E o \in SpawnOutcomes :
       LoopAt(commands, NextIndex(idx), o, listeners, promise, live \ {idx})
  /\ UNCHANGED <<cfgRelease, relPc, commands, childErrors, listeners>>
  /\ UNCHANGED wvars

\* package.ts:284-286  catch (error) { emitter.emit('error', error) }
CatchError ==
  /\ ppc = "rejected"
  /\ Emit("error", thrown, listeners)
  /\ promise' = OnErrorPromise(listeners, promise)
  /\ ppc' = "done"
  /\ UNCHANGED <<cfgRelease, relPc, commands, idx, spawnLog, live, thrown,
                 notes, childErrors, listeners>>
  /\ UNCHANGED wvars

\* ================================================================ watch
\* devtools.ts:228  the debounce delay, in ms
DebounceMs == 1000

\* granularity of the model's clock
TickMs == DebounceMs \div 2

Min(a, b) == IF a < b THEN a ELSE b
Max(a, b) == IF a > b THEN a ELSE b

NoCommand == [kind |-> "none", cmds |-> <<>>]

\* options.command: absent, one string, or a list of strings
OptCommands ==
  {NoCommand}
  \cup {[kind |-> "string", cmds |-> <<c>>] : c \in CmdNames}
  \cup {[kind |-> "list", cmds |-> cs] : cs \in SeqsUpTo(CmdNames, MaxCmds)}

\* the config type declares `watch?: string`
CfgWatches == {NoCommand} \cup {[kind |-> "string", cmds |-> <<c>>] : c \in CmdNames}

\* devtools.ts:164  options?.command ?? this.config.get('watch')
\* (config.get is only evaluated when options?.command is nullish)
NeedsConfig(og, oc) == ~og \/ oc.kind = "none"

ResolveCommand(og, oc, cfg) == IF NeedsConfig(og, oc) THEN cfg ELSE oc

\* devtools.ts:161-178, 348-352  the first statement of watch() that throws
WatchFailure(og, oc, cfg, ready) ==
  IF NeedsConfig(og, oc) /\ ~ready THEN "config is not ready"
  ELSE IF ~og THEN "TypeError: options is undefined"
  ELSE IF ResolveCommand(og, oc, cfg).kind = "none" THEN "Watch no command found"
  ELSE "none"

NoTimer == [set |-> FALSE, left |-> 0, first |-> FALSE]

\* a debounce that leaves a pending timer alone instead of re-arming it
DebouncedNoReset(t, first) ==
  IF t.set THEN t ELSE [set |-> TRUE, left |-> DebounceMs, first |-> first]

\* devtools.ts:216,228  doreamon.func.debounce(fn, 1000): every call drops the
\* pending timer and arms a new one that will pass the arguments of this call
Debounced(t, first) == [set |-> TRUE, left |-> DebounceMs, first |-> first]

NoChild == [set |-> FALSE, isList |-> FALSE, handles |-> <<>>]

\* an assignment that adds the new handles to the ones already held
AssignedKeepOld(old, isList, spawned) ==
  [set |-> TRUE, isList |-> isList, handles |-> old.handles \o spawned]

\* devtools.ts:227  child = await run(options)
Assigned(old, isList, spawned) == [set |-> TRUE, isList |-> isList, handles |-> spawned]

\* devtools.ts:186-189, 200-203  the banner is logged unless `first` is truthy
Banner(first) == ~first

\* devtools.ts:191-197, 205-207  the commands run() hands to runInBackground
RunCommands(cmd) == cmd.cmds

\* c.kill(): the handle receives the kill request
Kill(ps, p) == [ps EXCEPT ![p].state = IF @ = "running" THEN "killing" ELSE @]

\* the awaited kill has completed
Killed(ps, p) == [ps EXCEPT ![p].state = "killed"]

\* runInBackground for every command of the cycle, all in the same turn
Spawn(ps, cycle, cs) ==
  ps \o [j \in 1..Len(cs) |-> [cycle |-> cycle, cmd |-> cs[j], state |-> "running"]]

NewHandles(ps, cs) == [j \in 1..Len(cs) |-> Len(ps) + j]

\* devtools.ts:161-182, 210-243  watch() up to and including _run(true)
Watch ==
  /\ wpc = "idle"
  /\ LET err == WatchFailure(optGiven, optCommand, cfgWatch, isReady) IN
     IF err # "none"
     THEN /\ wpc' = "failed"
          /\ watchError' = err
          /\ UNCHANGED <<watcherRegistered, command, timer, sinceCall,
                         sinceStart, bursts, burstLen>>
     ELSE /\ wpc' = "watching"
          /\ watchError' = "none"
          /\ command' = ResolveCommand(optGiven, optCommand, cfgWatch)
          /\ watcherRegistered' = TRUE
          /\ timer' = Debounced(timer, TRUE)
          /\ sinceCall' = 0
          /\ sinceStart' = 0
          /\ bursts' = 1
          /\ burstLen' = 1
  /\ UNCHANGED <<optGiven, optCommand, cfgWatch, isReady, child, procs,
                 handlers, changes>>
  /\ UNCHANGED pvars

\* devtools.ts:238-240  the watcher's callback: await _run()
ChangeEvent ==
  /\ watcherRegistered
  /\ changes < MaxChanges
  /\ ~(timer.set /\ timer.left = 0)
  /\ changes' = changes + 1
  /\ timer' = Debounced(timer, FALSE)
  /\ bursts' = IF sinceCall >= DebounceMs THEN bursts + 1 ELSE bursts
  /\ burstLen' = IF sinceCall >= DebounceMs THEN 1 ELSE burstLen + 1
  /\ sinceCall' = 0
  /\ UNCHANGED <<optGiven, optCommand, cfgWatch, isReady, wpc, watchError,
                 watcherRegistered, command, child, procs, handlers, sinceStart>>
  /\ UNCHANGED pvars

\* passage of TickMs of time; a timer that is due fires before time moves on
Tick ==
  /\ wpc = "watching"
  /\ ~(timer.set /\ timer.left = 0)
  /\ timer.set \/ sinceCall < DebounceMs \/ sinceStart < DebounceMs
  /\ timer' = IF timer.set THEN [timer EXCEPT !.left = Max(0, @ - TickMs)] ELSE timer
  /\ sinceCall' = Min(DebounceMs, sinceCall + TickMs)
  /\ sinceStart' = Min(DebounceMs, sinceStart + TickMs)
  /\ UNCHANGED <<optGiven, optCommand, cfgWatch, isReady, wpc, watchError,
                 watcherRegistered, command, child, procs, handlers, changes,
                 bursts, burstLen>>
  /\ UNCHANGED pvars

\* devtools.ts:184-208  the handler calls run(options): banner, then one
\* runInBackground per command; it then awaits the handles
RunCalled(hs, h, ps) ==
  /\ handlers' = [hs EXCEPT ![h].pc = "awaitRun",
                            ![h].ran = TRUE,
                            ![h].banner = Banner(hs[h].first),
                            ![h].spawned = NewHandles(ps, RunCommands(command))]
  /\ procs' = Spawn(ps, h, RunCommands(command))

\* devtools.ts:216-225  the timer fires and the handler starts: it reads
\* `child` and either requests the first kill or goes straight to run()
Fire ==
  /\ timer.set /\ timer.left = 0
  /\ timer' = NoTimer
  /\ LET h == Len(handlers) + 1
         tgt == IF child.set THEN child.handles ELSE <<>>
         rec == [pc |-> "awaitKill", first |-> timer.first, target |-> tgt,
                 k |-> 1, spawned |-> <<>>, ran |-> FALSE, banner |-> FALSE,
                 delay |-> sinceStart, quiet |-> sinceCall, calls |-> burstLen]
     IN IF tgt = <<>>
        THEN RunCalled(Append(handlers, rec), h, procs)
        ELSE /\ handlers' = Append(handlers, rec)
             /\ procs' = Kill(procs, tgt[1])
  /\ UNCHANGED <<optGiven, optCommand, cfgWatch, isReady, wpc, watchError,
                 watcherRegistered, command, child, changes, sinceCall,
                 sinceStart, bursts, burstLen>>
  /\ UNCHANGED pvars

\* devtools.ts:219-225  an awaited kill completes: the loop requests the next
\* kill, or the handler goes on to run()
KillDone(h) ==
  /\ handlers[h].pc = "awaitKill"
  /\ LET tgt == handlers[h].target
         k == handlers[h].k
         ps == Killed(procs, tgt[k])
     IN IF k < Len(tgt)
        THEN /\ handlers' = [handlers EXCEPT ![h].k = k + 1]
             /\ procs' = Kill(ps, tgt[k + 1])
        ELSE RunCalled(handlers, h, ps)
  /\ UNCHANGED <<optGiven, optCommand, cfgWatch, isReady, wpc, watchError,
                 watcherRegistered, command, timer, child, changes, sinceCall,
                 sinceStart, bursts, burstLen>>
  /\ UNCHANGED pvars

\* devtools.ts:227  the awaited run() settles and its handles are stored
RunDone(h) ==
  /\ handlers[h].pc = "awaitRun"
  /\ child' = Assigned(child, command.kind = "list", handlers[h].spawned)
  /\ handlers' = [handlers EXCEPT ![h].pc = "done"]
  /\ UNCHANGED <<optGiven, optCommand, cfgWatch, isReady, wpc, watchError,
                 watcherRegistered, command, timer, procs, changes, sinceCall,
                 sinceStart, bursts, burstLen>>
  /\ UNCHANGED pvars

WatchAtRest ==
  /\ wpc = "idle"
  /\ watchError = "none"
  /\ watcherRegistered = FALSE
  /\ command = NoCommand
  /\ timer = NoTimer
  /\ child = NoChild
  /\ procs = <<>>
  /\ handlers = <<>>
  /\ changes = 0
  /\ sinceCall = 0
  /\ sinceStart = 0
  /\ bursts = 0
  /\ burstLen = 0

InitWatch ==
  /\ optGiven \in BOOLEAN
  /\ optCommand \in OptCommands
  /\ cfgWatch \in CfgWatches
  /\ isReady \in BOOLEAN
  /\ WatchAtRest

NextWatch ==
  \/ Watch
  \/ ChangeEvent
  \/ Tick
  \/ Fire
  \/ \E h \in DOMAIN handlers : KillDone(h)
  \/ \E h \in DOMAIN handlers : RunDone(h)

\* ============================================================= the specs
PipelineAtRest ==
  /\ relPc = "idle"
  /\ commands = <<>>
  /\ ppc = "none"
  /\ idx = 0
  /\ spawnLog = <<>>
  /\ live = {}
  /\ thrown = "none"
  /\ notes = 0
  /\ childErrors = <<>>
  /\ events = <<>>
  /\ listeners = {}
  /\ stderrLog = <<>>
  /\ stdoutLog = <<>>
  /\ promise = "none"

InitPipeline ==
  /\ cfgRelease \in ReleaseConfigs
  /\ PipelineAtRest
  /\ optGiven = FALSE
  /\ optCommand = NoCommand
  /\ cfgWatch = NoCommand
  /\ isReady = FALSE
  /\ WatchAtRest

NextPipeline ==
  \/ Release
  \/ ChildData
  \/ ChildError
  \/ ChildExit
  \/ CatchError

SpecPipeline == InitPipeline /\ [][NextPipeline]_vars

InitWatchSession ==
  /\ InitWatch
  /\ cfgRelease = [set |-> FALSE, isList |-> FALSE, cmds |-> <<>>]
  /\ PipelineAtRest

SpecWatch == InitWatchSession /\ [][NextWatch]_vars

\* ------------------------------------------------------- pipeline claims
CountEv(ev) == Cardinality({k \in DOMAIN events : events[k].ev = ev})

IsPrefix(a, b) == Len(a) <= Len(b) /\ a = SubSeq(b, 1, Len(a))

\* C2: for a non-empty command list whose spawns never throw, the commands are
\* spawned once each and in list order, command i+1 only after the exit of
\* command i (never two un-exited children), no `error` event is emitted, and
\* the finished pipeline has spawned the whole list and emitted one `exit`.
C2_SequentialSuccess ==
  (relPc = "piping" /\ commands # <<>> /\ thrown = "none") =>
    /\ IsPrefix(spawnLog, commands)
    /\ Len(spawnLog) = idx \/ (ppc = "done" /\ idx = Len(commands) + 1)
    /\ Cardinality(live) <= 1
    /\ live \subseteq {Len(spawnLog)}
    /\ CountEv("error") = 0
    /\ ppc = "done" => (spawnLog = commands /\ CountEv("exit") = 1)
    /\ ppc # "done" => CountEv("exit") = 0

C2_Witness ==
  /\ relPc = "piping" /\ thrown = "none" /\ ppc = "done"
  /\ Len(commands) >= 2 /\ spawnLog = commands

\* C3: when spawning command i throws, commands 1..i are the only ones ever
\* spawned, no `exit` event is emitted, and the finished pipeline has emitted
\* exactly one `error` event, whose payload is the thrown error.
C3_SpawnErrorTerminal ==
  (thrown # "none") =>
    /\ spawnLog = SubSeq(commands, 1, idx)
    /\ ppc \in {"rejected", "done"}
    /\ CountEv("exit") = 0
    /\ ppc = "rejected" => CountEv("error") = 0
    /\ ppc = "done" =>
         /\ CountEv("error") = 1
         /\ \A k \in DOMAIN events :
              events[k].ev = "error" => events[k].payload = thrown

C3_Witness ==
  /\ thrown # "none" /\ ppc = "done" /\ idx >= 1 /\ idx < Len(commands)
  /\ CountEv("error") = 1

\* C4 (as claimed): once the pipeline of release() has ended with an `error`
\* event, the error has been written to the error stream and the promise
\* release() returned is resolved.
C4_ErrorResolvesRelease ==
  (ppc = "done" /\ CountEv("error") > 0) =>
    (stderrLog # <<>> /\ promise = "resolved")

\* C9 (as claimed): a child's `error` notification is terminal: the pipeline
\* emits an `error` event carrying the value and spawns no later command.
C9_ChildErrorTerminal ==
  \A k \in DOMAIN childErrors :
    /\ \E j \in DOMAIN events :
         events[j].ev = "error" /\ events[j].payload = childErrors[k].value
    /\ Len(spawnLog) = childErrors[k].child

\* C9 (amended): a child's `error` notification is forwarded as a `data` event
\* carrying the value; it produces no `error` event, and when no spawn throws
\* the pipeline still runs every later command and ends with `exit`.
C9_ChildErrorForwardedAsData ==
  /\ Cardinality({j \in DOMAIN events :
        events[j].ev = "data" /\ events[j].payload \in Errors}) = Len(childErrors)
  /\ CountEv("error") = IF ppc = "done" /\ thrown # "none" THEN 1 ELSE 0
  /\ (childErrors # <<>> /\ thrown = "none" /\ ppc = "done") =>
       (spawnLog = commands /\ CountEv("exit") = 1)

C9_Witness ==
  /\ \E k \in DOMAIN childErrors : childErrors[k].child = 1
  /\ Len(spawnLog) = 2 /\ ppc = "done" /\ thrown = "none"

\* C10 (as claimed): for an empty command list no process is spawned and the
\* observer release() registers sees exactly one `exit`, so release() resolves.
C10_EmptyListResolves ==
  (relPc = "piping" /\ commands = <<>>) =>
    /\ spawnLog = <<>>
    /\ Cardinality({k \in DOMAIN events :
          events[k].ev = "exit" /\ events[k].delivered}) = 1
    /\ promise = "resolved"

\* ---------------------------------------------------------- watch claims
ProcsOf(ps, h) == {p \in DOMAIN ps : ps[p].cycle = h}

\* C1 (as claimed): processes of two different watch cycles are never both
\* un-terminated: a cycle spawns only after every handle of the cycle before
\* it has been killed and the kill awaited.
C1_NoTwoCyclesAlive ==
  \A p, q \in DOMAIN procs :
    procs[p].cycle # procs[q].cycle =>
      (procs[p].state = "killed" \/ procs[q].state = "killed")

\* C5: every burst of _run calls, each less than the debounce delay after the
\* one before, ends in exactly one invocation of the handler (one watch
\* cycle), and that invocation starts only once the burst has been quiet for
\* the whole debounce delay.
C5_BurstOneInvocation ==
  /\ Len(handlers) = bursts - (IF timer.set THEN 1 ELSE 0)
  /\ \A h \in DOMAIN handlers : handlers[h].quiet >= DebounceMs
  /\ timer.set => timer.left = DebounceMs - sinceCall

C5_Witness ==
  \E h \in DOMAIN handlers :
    /\ h >= 2
    /\ handlers[h].calls >= 2
    /\ handlers[h].ran
    /\ Len(handlers) = bursts

\* C6 (as claimed): the first watch cycle is the start-up call's own (no change
\* event is folded into it) and shows no banner; every later cycle shows it.
C6_FirstCycleNoBanner ==
  \A h \in DOMAIN handlers :
    handlers[h].ran =>
      IF h = 1
      THEN ~handlers[h].banner /\ handlers[h].calls = 1
      ELSE handlers[h].banner

\* C7 (as claimed): watch() without a command (no options argument, or options
\* without `command`) and without a `watch` entry in the loaded config fails
\* with 'Watch no command found', before the watcher is registered and before
\* any process is spawned.
C7_NoCommandFails ==
  (/\ wpc # "idle"
   /\ ~optGiven \/ optCommand.kind = "none"
   /\ isReady
   /\ cfgWatch.kind = "none") =>
    /\ watchError = "Watch no command found"
    /\ ~watcherRegistered
    /\ procs = <<>>

\* C8: with `command` a list of k strings, a cycle that has called run() has
\* spawned exactly k processes, all in the one turn of that call, and when its
\* awaited run() settles the `child` variable holds exactly the k handles of
\* that cycle, one per command and in command order.
C8_ListCycleHandles ==
  [][ \A h \in DOMAIN handlers' :
        command.kind = "list" =>
          /\ Cardinality(ProcsOf(procs', h)) =
               IF handlers'[h].ran THEN Len(command.cmds) ELSE 0
          /\ (h \in DOMAIN handlers /\ handlers[h].pc = "awaitRun"
                /\ handlers'[h].pc = "done") =>
               /\ child'.set /\ child'.isList
               /\ Len(child'.handles) = Len(command.cmds)
               /\ \A j \in 1..Len(command.cmds) :
                    /\ procs'[child'.handles[j]].cycle = h
                    /\ procs'[child'.handles[j]].cmd = command.cmds[j]
               /\ \A i, j \in 1..Len(command.cmds) :
                    i # j => child'.handles[i] # child'.handles[j]
    ]_vars

C8_Witness ==
  /\ command.kind = "list" /\ Len(command.cmds) = 2
  /\ \E h \in DOMAIN handlers :
       /\ h >= 2 /\ handlers[h].pc = "done"
       /\ child.set /\ child.handles = handlers[h].spawned
       /\ Len(child.handles) = 2

====
